---- MODULE Spec2Model ----
(***************************************************************************)
(* PyTorchModel (src/lume_model/pytorch/__init__.py): the evaluate         *)
(* pipeline over the input/output variable registries, and the transform   *)
(* chains held by adapter instances.                                       *)
(*                                                                         *)
(* Values are records [type, data]: a Python float is                      *)
(* [type |-> "float", data |-> <<v>>], a torch tensor is                    *)
(* [type |-> "Tensor", data |-> <<v1, ..>>], a numpy array is               *)
(* [type |-> "ndarray", data |-> <<..>>], None is [type |-> "None"].        *)
(***************************************************************************)
EXTENDS Integers, Sequences, FiniteSets, TLC

VARIABLES
    cfg,               \* constructor arguments kept by the adapter under evaluation
    input_variables,   \* self.input_variables: name -> [value, default]
    output_variables,  \* self.output_variables: name -> output variable record
    last,              \* the last evaluate call: its argument, locals and outcome
    lists,             \* heap of transform list objects, by identity
    instances,         \* adapter id -> which list objects it references
    op                 \* the last constructor / setter call

vars == <<cfg, input_variables, output_variables, last, lists, instances, op>>

(* ------------------------------ bounds --------------------------------- *)

\* numeric values range over 0..MaxVal
MaxVal == 1
\* adapters 1..NumAdapters exist in the chain specification
NumAdapters == 2
\* the setters stop inserting when a list holds MaxChain transforms
MaxChain == 2
\* the constructor arguments differ from Reference in at most MaxDeviation places
MaxDeviation == 2

Vals == 0..MaxVal
Adapters == 1..NumAdapters

(* ------------------------------ values --------------------------------- *)

None == [type |-> "None", data |-> <<>>]
Float(v) == [type |-> "float", data |-> <<v>>]
PyInt(v) == [type |-> "int", data |-> <<v>>]
Tensor(d) == [type |-> "Tensor", data |-> d]
NdArray(d) == [type |-> "ndarray", data |-> d]
\* an InputVariable object passed by the caller, carrying a float value
InputVariableObj(v) == [type |-> "InputVariable", data |-> <<v>>]

\* x.item(): defined on tensors (and numpy scalars), not on a Python int
HasItem(x) == x.type = "Tensor"
Item(x) == Float(x.data[1])

\* model_output[idx], idx counted from 0
Index(t, idx) == Tensor(<<t.data[idx + 1]>>)

RECURSIVE SumSeq(_)
SumSeq(s) == IF s = <<>> THEN 0 ELSE Head(s) + SumSeq(Tail(s))

SeqSet(s) == {s[i] : i \in 1..Len(s)}

(* --------------------------- configuration ----------------------------- *)

InKeys == <<"a", "b">>
InNames == SeqSet(InKeys)
OutNames == {"p", "q"}
Bounds == {"x_min", "x_max", "y_min", "y_max"}

\* None stands for "no ordering configured"
NoOrder == <<"None">>

FeatureOrders ==
    {NoOrder, <<"b", "a">>, <<"b">>, <<"a", "a">>, <<"a", "c">>}
OutputOrders ==
    {NoOrder, <<"q", "p">>, <<"q">>, <<"p", "p">>, <<"p", "q", "r">>}

\* "absent" is an output_format dictionary without the key "type"
FormatTypes == {"tensor", "variable", "raw", "absent"}

ModelKinds == {"identity", "wide"}
Transformers == {"shift", "negate"}

NoRefs == [b \in Bounds |-> ""]
ScalarVar == [variable_type |-> "scalar", value |-> None, size |-> 1,
              refs |-> NoRefs, bounds |-> [b \in Bounds |-> Float(0)]]
ImageVar(refs) == [variable_type |-> "image", value |-> None, size |-> 1,
                   refs |-> refs, bounds |-> [b \in Bounds |-> Float(0)]]

\* output registries: key order and the records behind the keys
OutputRegistries ==
    { [keys |-> <<"p", "q">>, vars |-> [n \in OutNames |-> ScalarVar]],
      [keys |-> <<"p", "q">>,
       vars |-> [n \in OutNames |->
                   IF n = "p"
                   THEN ImageVar([b \in Bounds |->
                                    IF b \in {"x_min", "y_max"} THEN "q" ELSE ""])
                   ELSE ScalarVar]],
      [keys |-> <<"q", "p">>,
       vars |-> [n \in OutNames |->
                   IF n = "p"
                   THEN ImageVar([b \in Bounds |->
                                    IF b \in {"x_max", "y_min"} THEN "q" ELSE ""])
                   ELSE ScalarVar]] }

\* the default of each registered input
Defaults == [n \in InNames |-> IF n = "a" THEN 0 ELSE MaxVal]

ChainPairs == {<<<<>>, <<>>>>, <<<<"negate">>, <<"shift">>>>}

\* what a caller may put under a name
Entries ==
    {Float(v) : v \in Vals} \cup {PyInt(v) : v \in Vals}
      \cup {Tensor(<<v>>) : v \in Vals} \cup {InputVariableObj(v) : v \in Vals}
InputMaps == UNION {[S -> Entries] : S \in SUBSET InNames}

(* ------------------------- transform list heap ------------------------- *)

\* List objects are named <<owner, side>>: owner 0 is the list object created
\* once for the default argument of __init__ (input_transformers=[] /
\* output_transformers=[]), owner x > 0 is a list the caller of adapter x's
\* constructor passed in.
Sides == {"in", "out"}
ListIds == (0..NumAdapters) \X Sides

input_transformers(x) == lists[<<instances[x].in_owner, "in">>]
output_transformers(x) == lists[<<instances[x].out_owner, "out">>]

\* the adapter whose evaluate is modelled
Self == 1

(* ------------------------------ evaluate ------------------------------- *)

\* mutant: the fallback forgets the default
MissingValueNone(var) == None

\* mutant: the fallback keeps what the previous call stored
MissingValuePrevious(var) == var.value

\* line 154: the value given to a registered name the caller left out
MissingValue(var) == var.default

\* lines 142-154: first loop of _prepare_inputs, from key number i on
RECURSIVE ResolveInputs(_, _, _)
ResolveInputs(reg, inputs, i) ==
    IF i > Len(InKeys) THEN [reg |-> reg, status |-> "ok"]
    ELSE LET n == InKeys[i] IN
         IF n \notin DOMAIN inputs
         THEN ResolveInputs([reg EXCEPT ![n].value = MissingValue(reg[n])], inputs, i + 1)
         ELSE IF inputs[n].type = "InputVariable"
         THEN ResolveInputs([reg EXCEPT ![n].value = Float(inputs[n].data[1])], inputs, i + 1)
         ELSE IF inputs[n].type = "float"
         THEN ResolveInputs([reg EXCEPT ![n].value = inputs[n]], inputs, i + 1)
         ELSE IF HasItem(inputs[n])
         THEN ResolveInputs([reg EXCEPT ![n].value = Item(inputs[n])], inputs, i + 1)
         ELSE [reg |-> reg, status |-> "AttributeError"]

\* lines 158-165: torch.tensor(var.value, dtype=double) unless already a tensor
ToTensor(value) == IF value.type = "Tensor" THEN value ELSE Tensor(value.data)

\* lines 126-167
PrepareInputs(reg, inputs) ==
    LET r == ResolveInputs(reg, inputs, 1) IN
    IF r.status # "ok" THEN [reg |-> r.reg, status |-> r.status, vals |-> <<>>]
    ELSE IF \E n \in InNames : r.reg[n].value.type = "None"
    THEN [reg |-> r.reg, status |-> "RuntimeError", vals |-> <<>>]
    ELSE [reg |-> r.reg, status |-> "ok",
          vals |-> [n \in InNames |-> ToTensor(r.reg[n].value)]]

\* mutant: the configured feature order is ignored
FeatureNamesRegistry(c) == InKeys

\* lines 184-191: the names the feature vector is built from
FeatureNames(c) == IF c.feature_order # NoOrder THEN c.feature_order ELSE InKeys

\* mutant: a feature without a normalized value is left out of the vector
ArrangeInputsSkipping(c, vals) ==
    LET names == SelectSeq(FeatureNames(c), LAMBDA n : n \in DOMAIN vals) IN
    [status |-> "ok",
     features |-> Tensor([i \in 1..Len(names) |-> vals[names[i]].data[1]])]

\* lines 169-193: torch.stack of the normalized values in feature order
ArrangeInputs(c, vals) ==
    LET names == FeatureNames(c) IN
    IF \E i \in 1..Len(names) : names[i] \notin DOMAIN vals
    THEN [status |-> "KeyError", features |-> Tensor(<<>>)]
    ELSE [status |-> "ok",
          features |-> Tensor([i \in 1..Len(names) |-> vals[names[i]].data[1]])]

\* a transform's forward call and its untransform, elementwise
Forward(t, x) == IF t = "shift" THEN x + 1 ELSE 0 - x
Untransform(t, y) == IF t = "shift" THEN y - 1 ELSE 0 - y

\* lines 195-209
RECURSIVE TransformInputs(_, _)
TransformInputs(chain, input_values) ==
    IF chain = <<>> THEN input_values
    ELSE TransformInputs(Tail(chain),
            Tensor([i \in 1..Len(input_values.data) |->
                      Forward(Head(chain), input_values.data[i])]))

\* line 119: the loaded network, an opaque vector to vector function
ModelForward(c, features) ==
    IF c.model = "identity" THEN features
    ELSE Tensor(features.data \o <<SumSeq(features.data)>>)

\* lines 211-225: untransform of each transform, in list order
RECURSIVE TransformOutputs(_, _)
TransformOutputs(chain, model_output) ==
    IF chain = <<>> THEN model_output
    ELSE TransformOutputs(Tail(chain),
            Tensor([i \in 1..Len(model_output.data) |->
                      Untransform(Head(chain), model_output.data[i])]))

\* lines 239-246: the names the output vector is split by
OutputOrderNames(c) == IF c.output_order # NoOrder THEN c.output_order ELSE c.out_keys

\* mutant: names beyond the end of the output vector are dropped, as zip would
ParseOutputsZip(c, model_output) ==
    LET all == OutputOrderNames(c)
        names == SubSeq(all, 1, IF Len(all) > Len(model_output.data)
                                THEN Len(model_output.data) ELSE Len(all))
    IN [status |-> "ok",
        output |-> [n \in SeqSet(names) |->
                      LET idx == CHOOSE i \in 1..Len(names) :
                                    /\ names[i] = n
                                    /\ \A j \in 1..Len(names) : names[j] = n => j <= i
                      IN Index(model_output, idx - 1)]]

\* lines 227-247: output[name] = model_output[idx]; a repeated name keeps the
\* last slot assigned to it
ParseOutputs(c, model_output) ==
    LET names == OutputOrderNames(c) IN
    IF Len(names) > Len(model_output.data)
    THEN [status |-> "IndexError", output |-> <<>>]
    ELSE [status |-> "ok",
          output |-> [n \in SeqSet(names) |->
                        LET idx == CHOOSE i \in 1..Len(names) :
                                      /\ names[i] = n
                                      /\ \A j \in 1..Len(names) : names[j] = n => j <= i
                        IN Index(model_output, idx - 1)]]

BoundSeq == <<"x_min", "x_max", "y_min", "y_max">>

\* mutant: the bound is read from the referenced variable's record
BoundValueStale(predicted_output, reg, ref) ==
    IF ref \in DOMAIN reg THEN reg[ref].value ELSE None

\* lines 278-280 (and 283-285, 288-290, 293-295): the value stored as a bound
BoundValue(predicted_output, reg, ref) == Item(predicted_output[ref])

\* lines 277-295: the four limit updates of one image variable, from bound k on
RECURSIVE UpdateLimits(_, _, _, _)
UpdateLimits(reg, predicted_output, n, k) ==
    IF k > Len(BoundSeq) THEN [reg |-> reg, status |-> "ok"]
    ELSE LET b == BoundSeq[k]
             ref == reg[n].refs[b]
         IN IF ref = "" THEN UpdateLimits(reg, predicted_output, n, k + 1)
            ELSE IF ref \notin DOMAIN predicted_output
            THEN [reg |-> reg, status |-> "KeyError"]
            ELSE UpdateLimits(
                   [reg EXCEPT ![n].bounds[b] = BoundValue(predicted_output, reg, ref)],
                   predicted_output, n, k + 1)

\* mutant: a scalar output keeps the value it had
ScalarValueStale(reg, predicted_output, n) == reg[n].value

\* lines 265-267: the value stored for a scalar output
ScalarValue(reg, predicted_output, n) == Item(predicted_output[n])

\* lines 272-274: the value stored for an image output
ImageValue(reg, predicted_output, n) == NdArray(predicted_output[n].data)

\* lines 263-295: the loop over self.output_variables.values(), from key i on
RECURSIVE UpdateOutputs(_, _, _, _)
UpdateOutputs(c, reg, predicted_output, i) ==
    IF i > Len(c.out_keys) THEN [reg |-> reg, status |-> "ok"]
    ELSE LET n == c.out_keys[i] IN
         IF reg[n].variable_type = "scalar"
         THEN IF n \notin DOMAIN predicted_output
              THEN [reg |-> reg, status |-> "KeyError"]
              ELSE UpdateOutputs(c,
                     [reg EXCEPT ![n].value = ScalarValue(reg, predicted_output, n)],
                     predicted_output, i + 1)
         ELSE IF reg[n].variable_type = "image"
         THEN IF n \notin DOMAIN predicted_output
              THEN [reg |-> reg, status |-> "KeyError"]
              ELSE IF Len(predicted_output[n].data) # reg[n].size
              THEN [reg |-> reg, status |-> "RuntimeError"]
              ELSE LET r == UpdateLimits(
                              [reg EXCEPT ![n].value = ImageValue(reg, predicted_output, n)],
                              predicted_output, n, 1)
                   IN IF r.status # "ok" THEN r
                      ELSE UpdateOutputs(c, r.reg, predicted_output, i + 1)
         ELSE UpdateOutputs(c, reg, predicted_output, i + 1)

\* lines 296, 298: self._output_format.get("type")
FormatType(c) == IF c.output_format = "absent" THEN "None" ELSE c.output_format

\* mutant: every type but "variable" hands back the parsed mapping
FormatOutputsTensorDefault(c, reg, predicted_output) ==
    IF FormatType(c) = "variable" THEN reg ELSE predicted_output

\* lines 296-301: what evaluate hands back
FormatOutputs(c, reg, predicted_output) ==
    IF FormatType(c) = "tensor" THEN predicted_output
    ELSE IF FormatType(c) = "variable" THEN reg
    ELSE [n \in SeqSet(c.out_keys) |-> reg[n].value]

\* lines 249-301
PrepareOutputs(c, reg, predicted_output) ==
    LET r == UpdateOutputs(c, reg, predicted_output, 1) IN
    IF r.status # "ok" THEN [reg |-> r.reg, status |-> r.status, ret |-> <<>>]
    ELSE [reg |-> r.reg, status |-> "ok",
          ret |-> FormatOutputs(c, r.reg, predicted_output)]

\* whether the call replaced a value that an earlier call had stored in the
\* input registry by another one
Overwrote(before, after) ==
    \E n \in InNames : before[n].value \notin {None, after[n].value}

\* the outcome of a call that raised in `stage`
Raised(inputs, before, inreg, outreg, stage, status, invoked, predicted) ==
    [inreg |-> inreg, outreg |-> outreg,
     call |-> [called |-> TRUE, inputs |-> inputs, status |-> status,
               stage |-> stage, invoked |-> invoked,
               overwrote |-> Overwrote(before, inreg),
               predicted |-> predicted, ret |-> <<>>]]

\* lines 97-124: evaluate on an adapter with configuration c, transform lists
\* ichain / ochain and registries inreg / outreg
EvaluateOn(c, ichain, ochain, inreg, outreg, inputs) ==
    LET prep == PrepareInputs(inreg, inputs) IN
    IF prep.status # "ok"
    THEN Raised(inputs, inreg, prep.reg, outreg, "_prepare_inputs", prep.status, FALSE, <<>>)
    ELSE
    LET arr == ArrangeInputs(c, prep.vals) IN
    IF arr.status # "ok"
    THEN Raised(inputs, inreg, prep.reg, outreg, "_arrange_inputs", arr.status, FALSE, <<>>)
    ELSE
    LET features == TransformInputs(ichain, arr.features)
        raw_output == ModelForward(c, features)
        transformed_output == TransformOutputs(ochain, raw_output)
        parsed == ParseOutputs(c, transformed_output)
    IN
    IF parsed.status # "ok"
    THEN Raised(inputs, inreg, prep.reg, outreg, "_parse_outputs", parsed.status, TRUE, <<>>)
    ELSE
    LET out == PrepareOutputs(c, outreg, parsed.output) IN
    IF out.status # "ok"
    THEN Raised(inputs, inreg, prep.reg, out.reg, "_prepare_outputs", out.status, TRUE,
                parsed.output)
    ELSE [inreg |-> prep.reg, outreg |-> out.reg,
          call |-> [called |-> TRUE, inputs |-> inputs, status |-> "ok",
                    stage |-> "return", invoked |-> TRUE,
                    overwrote |-> Overwrote(inreg, prep.reg),
                    predicted |-> parsed.output, ret |-> out.ret]]

(* ------------------------------- actions ------------------------------- *)

NoCall == [called |-> FALSE, inputs |-> <<>>, status |-> "ok", stage |-> "none",
           invoked |-> FALSE, overwrote |-> FALSE, predicted |-> <<>>, ret |-> <<>>]
NoOp == [kind |-> "none", who |-> 0]
NoInstance == [made |-> FALSE, in_owner |-> 0, out_owner |-> 0]

\* the registries as the constructor receives them
FreshInputs == [n \in InNames |-> [value |-> None, default |-> Float(Defaults[n])]]

\* the constructor's arguments when the caller passes only what has no default
\* (lines 19-23), over scalar outputs and an identity network
Reference ==
    [feature_order |-> NoOrder, output_order |-> NoOrder, output_format |-> "tensor",
     model |-> "identity", outputs |-> CHOOSE r \in OutputRegistries :
                                         \A n \in OutNames : r.vars[n] = ScalarVar,
     chains |-> <<<<>>, <<>>>>]

Arguments ==
    [feature_order : FeatureOrders, output_order : OutputOrders,
     output_format : FormatTypes, model : ModelKinds, outputs : OutputRegistries,
     chains : ChainPairs]

\* in how many arguments a differs from Reference
Deviation(a) == Cardinality({f \in DOMAIN a : a[f] # Reference[f]})

\* lines 14-67: the adapter Self has been constructed from its arguments, with
\* transform lists of its own
Init ==
    /\ \E a \in Arguments :
         /\ Deviation(a) <= MaxDeviation
         /\ cfg = [feature_order |-> a.feature_order, output_order |-> a.output_order,
                   output_format |-> a.output_format, model |-> a.model,
                   out_keys |-> a.outputs.keys]
         /\ input_variables = FreshInputs
         /\ output_variables = a.outputs.vars
         /\ lists = [id \in ListIds |->
                       IF id = <<Self, "in">> THEN a.chains[1]
                       ELSE IF id = <<Self, "out">> THEN a.chains[2] ELSE <<>>]
    /\ last = NoCall
    /\ instances = [x \in Adapters |->
                      IF x = Self THEN [made |-> TRUE, in_owner |-> Self, out_owner |-> Self]
                      ELSE NoInstance]
    /\ op = NoOp

\* lines 97-124: one evaluate call on Self
Evaluate(inputs) ==
    /\ ~last.called
    /\ LET r == EvaluateOn(cfg, input_transformers(Self), output_transformers(Self),
                           input_variables, output_variables, inputs)
       IN /\ input_variables' = r.inreg
          /\ output_variables' = r.outreg
          /\ last' = r.call
    /\ UNCHANGED <<cfg, lists, instances, op>>

\* line 124: the call is over (returned or raised) and its frame is gone; the
\* registries keep what the call wrote
Return ==
    /\ last.called
    /\ last' = NoCall
    /\ UNCHANGED <<cfg, input_variables, output_variables, lists, instances, op>>

Next ==
    \/ \E inputs \in InputMaps : Evaluate(inputs)
    \/ Return

Spec == Init /\ [][Next]_vars

(* ------------------------- constructor and setters --------------------- *)

\* list.insert(loc, transformer) for 0 <= loc <= len
Insert(s, loc, t) == SubSeq(s, 1, loc) \o <<t>> \o SubSeq(s, loc + 1, Len(s))

\* the lists a caller builds to pass to the constructor
PassedLists == {<<>>} \cup {<<t>> : t \in Transformers}

\* lines 14-67: adapter x is constructed; use_default_in / use_default_out say
\* that the caller leaves the argument out, so that the parameter is bound to the
\* list object of the def statement (lines 19-20); otherwise the caller passes a
\* new list, passed_in / passed_out. Lines 56 and 59 keep the reference.
Construct(x, use_default_in, use_default_out, passed_in, passed_out) ==
    /\ ~instances[x].made
    /\ use_default_in => passed_in = <<>>
    /\ use_default_out => passed_out = <<>>
    /\ instances' = [instances EXCEPT ![x] =
                       [made |-> TRUE,
                        in_owner |-> IF use_default_in THEN 0 ELSE x,
                        out_owner |-> IF use_default_out THEN 0 ELSE x]]
    /\ lists' = [id \in ListIds |->
                   IF id = <<x, "in">> /\ ~use_default_in THEN passed_in
                   ELSE IF id = <<x, "out">> /\ ~use_default_out THEN passed_out
                   ELSE lists[id]]
    /\ op' = [kind |-> "__init__", who |-> x]
    /\ UNCHANGED <<cfg, input_variables, output_variables, last>>

\* lines 85-88: x.input_transformers = (transformer, loc)
SetInputTransformers(x, transformer, loc) ==
    /\ instances[x].made
    /\ Len(input_transformers(x)) < MaxChain
    /\ loc \in 0..Len(input_transformers(x))
    /\ lists' = [lists EXCEPT ![<<instances[x].in_owner, "in">>] =
                                  Insert(@, loc, transformer)]
    /\ op' = [kind |-> "input_transformers", who |-> x]
    /\ UNCHANGED <<cfg, input_variables, output_variables, last, instances>>

\* lines 90-95: x.output_transformers = (transformer, loc)
SetOutputTransformers(x, transformer, loc) ==
    /\ instances[x].made
    /\ Len(output_transformers(x)) < MaxChain
    /\ loc \in 0..Len(output_transformers(x))
    /\ lists' = [lists EXCEPT ![<<instances[x].out_owner, "out">>] =
                                  Insert(@, loc, transformer)]
    /\ op' = [kind |-> "output_transformers", who |-> x]
    /\ UNCHANGED <<cfg, input_variables, output_variables, last, instances>>

\* no adapter exists yet; the two default list objects are empty
ChainInit ==
    /\ cfg = [feature_order |-> Reference.feature_order,
              output_order |-> Reference.output_order,
              output_format |-> Reference.output_format, model |-> Reference.model,
              out_keys |-> Reference.outputs.keys]
    /\ input_variables = FreshInputs
    /\ output_variables = Reference.outputs.vars
    /\ last = NoCall
    /\ lists = [id \in ListIds |-> <<>>]
    /\ instances = [x \in Adapters |-> NoInstance]
    /\ op = NoOp

ChainNext ==
    \/ \E x \in Adapters, di, do \in BOOLEAN, pi, po \in PassedLists :
          Construct(x, di, do, pi, po)
    \/ \E x \in Adapters, t \in Transformers, loc \in 0..MaxChain :
          SetInputTransformers(x, t, loc)
    \/ \E x \in Adapters, t \in Transformers, loc \in 0..MaxChain :
          SetOutputTransformers(x, t, loc)

ChainSpec == ChainInit /\ [][ChainNext]_vars

(* ------------------------------- claims -------------------------------- *)

\* the registries as the constructor of this adapter received them
FreshOutputs ==
    [n \in DOMAIN output_variables |->
       [output_variables[n] EXCEPT !.value = None,
                                   !.bounds = [b \in Bounds |-> Float(0)]]]

\* the same call made on a newly constructed adapter with arguments c
FreshCall(c, inputs) ==
    EvaluateOn(c, input_transformers(Self), output_transformers(Self),
               FreshInputs, FreshOutputs, inputs).call

\* the orderings in force: the configured one, else the registry's key order
FeatureOrderOrKeys == IF cfg.feature_order = NoOrder THEN InKeys ELSE cfg.feature_order
OutputOrderOrKeys == IF cfg.output_order = NoOrder THEN cfg.out_keys ELSE cfg.output_order

IsPermutation(s, t) == Len(s) = Len(t) /\ SeqSet(s) = SeqSet(t) /\ Cardinality(SeqSet(s)) = Len(s)
NoRepeat(s) == Cardinality(SeqSet(s)) = Len(s)

\* the orderings list exactly the keys of their registries (spec, section 3)
OrderingsMatch ==
    /\ IsPermutation(FeatureOrderOrKeys, InKeys)
    /\ IsPermutation(OutputOrderOrKeys, cfg.out_keys)

AbsentNames == {n \in InNames : n \notin DOMAIN last.inputs}
AcceptedByCode(e) == e.type \in {"InputVariable", "float", "Tensor"}

\* the number a caller's entry carries
Carried(e) == e.data[1]

\* the value the call is given for input n: the caller's, else the default
GivenValue(n) ==
    IF n \in DOMAIN last.inputs THEN Carried(last.inputs[n]) ELSE Defaults[n]

\* the numbers held by a stored value, flattened
Numbers(v) == v.data

\* C1: a registered input the caller leaves out gets the variable's default for
\* this call, whatever earlier calls stored, and leaving it out does not make the
\* call fail: the call ends as the same call with the default passed explicitly
\* ends on a new adapter, and returns a complete output when the entries passed
\* are of a kind the code accepts and the orderings match the registries.
C1_MissingInputUsesDefault ==
    (last.called /\ AbsentNames # {}) =>
      LET explicit == [n \in InNames |->
                         IF n \in DOMAIN last.inputs THEN last.inputs[n]
                         ELSE input_variables[n].default]
          ref == FreshCall(cfg, explicit)
      IN /\ last.stage # "_prepare_inputs" =>
              \A n \in AbsentNames : input_variables[n].value = Float(Defaults[n])
         /\ last.status = ref.status /\ last.stage = ref.stage
         /\ last.status = "ok" => last.ret = ref.ret
         /\ (OrderingsMatch /\ \A n \in DOMAIN last.inputs : AcceptedByCode(last.inputs[n]))
              => /\ last.status = "ok"
                 /\ DOMAIN last.ret = SeqSet(cfg.out_keys)

\* a call that leaves out b after an earlier call stored another value for it
C1_Witness ==
    /\ last.called /\ last.status = "ok" /\ last.overwrote
    /\ AbsentNames = {"b"}
    /\ Carried(last.inputs["a"]) = Defaults["a"]
    /\ input_variables["b"].value = Float(Defaults["b"])

\* C2: with an identity network, empty transform lists and format "tensor", a
\* call that returns hands back a mapping keyed by the names of the output order
\* (the registry's keys when none is configured); when that order lists no name
\* twice, the value under its i-th name is the value given for the i-th feature.
C2_IdentityReturnsInputs ==
    ( /\ last.called /\ last.status = "ok"
      /\ cfg.model = "identity" /\ cfg.output_format = "tensor"
      /\ input_transformers(Self) = <<>> /\ output_transformers(Self) = <<>> ) =>
      LET names == OutputOrderOrKeys
          feats == FeatureOrderOrKeys
      IN /\ DOMAIN last.ret = SeqSet(names)
         /\ Len(names) <= Len(feats)
         /\ NoRepeat(names) =>
              \A i \in 1..Len(names) :
                 last.ret[names[i]] = Tensor(<<GivenValue(feats[i])>>)

C2_Witness ==
    /\ last.called /\ last.status = "ok"
    /\ cfg.model = "identity" /\ cfg.output_format = "tensor"
    /\ input_transformers(Self) = <<>> /\ output_transformers(Self) = <<>>
    /\ cfg.feature_order = <<"b", "a">> /\ cfg.output_order = <<"q", "p">>
    /\ DOMAIN last.inputs = InNames
    /\ GivenValue("a") # GivenValue("b")

\* C3: a call ends and returns exactly as the same call ends and returns on a
\* newly constructed adapter with the same network, transform lists and
\* orderings: what earlier calls left in the registries changes nothing.
C3_ResultIndependentOfHistory ==
    last.called =>
      LET ref == FreshCall(cfg, last.inputs)
      IN /\ last.status = ref.status /\ last.stage = ref.stage
         /\ last.status = "ok" => last.ret = ref.ret

\* a call made after an earlier call stored other values than it is given
C3_Witness ==
    /\ last.called /\ last.status = "ok" /\ last.overwrote
    /\ cfg.output_format = "variable"
    /\ \E n \in DOMAIN output_variables : output_variables[n].variable_type = "image"

ImageNames == {n \in DOMAIN output_variables : output_variables[n].variable_type = "image"}
Position(keys, n) == CHOOSE i \in 1..Len(keys) : keys[i] = n

\* C5: after a call that returns, each limit of an image output that refers to
\* another output holds the value this call computed for that output, on
\* whichever side of the image variable the registry lists it.
C5_LimitsFollowCurrentOutputs ==
    (last.called /\ last.status = "ok") =>
      \A n \in ImageNames : \A b \in Bounds :
         LET ref == output_variables[n].refs[b] IN
         ref # "" =>
           /\ output_variables[n].bounds[b] = Item(last.predicted[ref])
           /\ output_variables[ref].variable_type = "scalar"
                => output_variables[n].bounds[b] = output_variables[ref].value

\* the image variable is listed before the output its limit refers to, and the
\* call changed what that output holds
C5_Witness ==
    /\ last.called /\ last.status = "ok" /\ last.overwrote
    /\ cfg.model = "identity" /\ OrderingsMatch
    /\ \E n \in ImageNames :
          /\ output_variables[n].refs["x_min"] = "q"
          /\ Position(cfg.out_keys, n) < Position(cfg.out_keys, "q")
          /\ output_variables[n].bounds["x_min"] # Float(0)

C5_WitnessReferencedFirst ==
    /\ last.called /\ last.status = "ok"
    /\ \E n \in ImageNames :
          /\ output_variables[n].refs["x_max"] = "q"
          /\ Position(cfg.out_keys, "q") < Position(cfg.out_keys, n)

UnknownFeature == \E i \in 1..Len(FeatureOrderOrKeys) : FeatureOrderOrKeys[i] \notin InNames

\* C6: when the feature order holds a name without a normalized value, a call
\* whose input normalization succeeds raises a lookup error in _arrange_inputs,
\* and the network is not invoked.
C6_MissingFeatureRaises ==
    (last.called /\ UnknownFeature) =>
      /\ ~last.invoked
      /\ last.status # "ok"
      /\ last.stage # "_prepare_inputs" =>
            last.status = "KeyError" /\ last.stage = "_arrange_inputs"

C6_Witness ==
    /\ last.called /\ UnknownFeature
    /\ last.status = "KeyError" /\ last.stage = "_arrange_inputs"
    /\ DOMAIN last.inputs = InNames

LookupError == last.status \in {"KeyError", "IndexError"}

OrderingMismatch ==
    \/ cfg.feature_order # NoOrder /\ ~IsPermutation(cfg.feature_order, InKeys)
    \/ cfg.output_order # NoOrder /\ ~IsPermutation(cfg.output_order, cfg.out_keys)

\* C7 as stated: with an ordering that does not list exactly the registry's keys
\* evaluate fails with a lookup error; it never returns a result.
C7_AnyMismatchRaises ==
    (last.called /\ OrderingMismatch) => last.status # "ok"

\* the length of the vector the network returns
OutputLength ==
    Len(FeatureOrderOrKeys) + (IF cfg.model = "wide" THEN 1 ELSE 0)

TooManyOutputNames == Len(OutputOrderOrKeys) > OutputLength

UncoveredOutput ==
    \E n \in SeqSet(cfg.out_keys) :
       \/ n \notin SeqSet(OutputOrderOrKeys)
       \/ /\ output_variables[n].variable_type = "image"
          /\ \E b \in Bounds : output_variables[n].refs[b]
                                  \notin SeqSet(OutputOrderOrKeys) \cup {""}

\* C7 amended: once input normalization has succeeded, evaluate fails with a
\* lookup error exactly when the feature order names an unregistered input, the
\* output order lists more names than the network returns values, or a
\* registered output (or an output a limit refers to) is missing from the output
\* order.
C7_LookupErrorExactlyWhen ==
    (last.called /\ last.stage # "_prepare_inputs") =>
      (LookupError <=> (UnknownFeature \/ TooManyOutputNames \/ UncoveredOutput))

\* an ordering with a repeated name, and the call returns
C7_Witness ==
    /\ last.called /\ last.status = "ok"
    /\ cfg.feature_order = <<"a", "a">>

C7_WitnessRaises ==
    /\ last.called /\ last.status = "IndexError" /\ cfg.output_order = <<"p", "q", "r">>

\* C8: a call that returns hands back the parsed mapping under "tensor", the
\* output registry under "variable", and under any other type (or none) the
\* mapping from each registered output to its current value; in every case the
\* registry already holds the values of this call.
C8_FormatDispatch ==
    (last.called /\ last.status = "ok") =>
      /\ cfg.output_format = "tensor" => last.ret = last.predicted
      /\ cfg.output_format = "variable" => last.ret = output_variables
      /\ cfg.output_format \notin {"tensor", "variable"} =>
            last.ret = [n \in SeqSet(cfg.out_keys) |-> output_variables[n].value]
      /\ \A n \in SeqSet(cfg.out_keys) :
            Numbers(output_variables[n].value) = Numbers(last.predicted[n])

C8_Witness ==
    /\ last.called /\ last.status = "ok" /\ last.overwrote
    /\ cfg.output_format = "absent"
    /\ \E n \in DOMAIN last.ret : last.ret[n] = Float(MaxVal)

C8_WitnessRaw ==
    /\ last.called /\ last.status = "ok" /\ cfg.output_format = "raw"

\* C9 as stated: for the names the caller passes, input normalization stores
\* the caller's value without failing, whether the entry is a variable object,
\* an integer, a floating-point number or a tensor.
C9_EveryScalarAccepted ==
    last.called =>
      /\ last.stage # "_prepare_inputs"
      /\ \A n \in DOMAIN last.inputs :
            input_variables[n].value = Float(Carried(last.inputs[n]))

\* C10 as stated: an insertion through a setter of one adapter leaves the input
\* and output chains of every other adapter as they were.
C10_SetterChangesOnlyOwnChains ==
    [][\A y \in Adapters :
         ( /\ instances[y].made
           /\ op'.kind \in {"input_transformers", "output_transformers"}
           /\ op'.who # y )
         => /\ input_transformers(y)' = input_transformers(y)
            /\ output_transformers(y)' = output_transformers(y)]_vars

====
